---- MODULE Spec2Model ----
(***************************************************************************)
(* The PhotoGrid component of moment-grid-creator: the nine image slots    *)
(* (the `images` state), the handlers that mutate them                     *)
(* (handleFileSelect, removeImage, resetGrid), the object URLs they create *)
(* and revoke, the toast they emit, and the canvas export (downloadGrid).  *)
(***************************************************************************)
EXTENDS Integers, Sequences, FiniteSets, TLC

\* ------------------------------------------------------------ constants

\* Array.from({ length: 9 }, ...), `targetIndex < 9`, `9 - startIndex`.
GridSlots == 9

\* Longest FileList a file dialog or a drop hands to handleFileSelect.
MaxFiles == 2

\* Most object URLs that may be live while no slot references them.  The
\* program sets no limit on this number; the model stops creating at it.
MaxLeaked == 1

\* Most object URLs live at once in a run of the slot store with few images.
MaxLive == 2

\* Most object URLs live at once in a run that follows the export.
MaxExportLive == 1

\* Most PNG files a run that follows the export downloads.
MaxDownloads == 1

\* Most slots filled in a run that follows the export alone.
MaxFilled == 2

\* Longest side, in pixels, of the image a run of the cover fit loads.
MaxSide == 12

Indices == 0 .. (GridSlots - 1)

\* `file: File | null` and `preview: string | null` of an empty slot.
NoFile == "null"
NoUrl == <<>>

\* slotId?: number -- an absent argument is the empty tuple, a given one <<t>>.
Undefined == <<>>
SlotIds == {Undefined} \cup {<<t>> : t \in Indices}

\* ---------------------------------------------------------------- files

\* File.type, as the sequence of its characters.
MimeType(file) ==
  CASE file = "a.png" -> <<"i", "m", "a", "g", "e", "/", "p", "n", "g">>
    [] file = "b.jpg" -> <<"i", "m", "a", "g", "e", "/", "j", "p", "e", "g">>
    [] file = "c.txt" -> <<"t", "e", "x", "t", "/", "p", "l", "a", "i", "n">>
    [] OTHER -> <<>>

\* String.prototype.startsWith
StartsWith(s, prefix) ==
  /\ Len(s) >= Len(prefix)
  /\ SubSeq(s, 1, Len(prefix)) = prefix

\* file => file.type.startsWith('image/')
IsImage(file) == StartsWith(MimeType(file), <<"i", "m", "a", "g", "e", "/">>)

\* The files a user picks from in a run of the slot store: one image and one
\* file that is no image.
Files == {"a.png", "c.txt"}

SeqsUpTo(S, n) == UNION { [1 .. k -> S] : k \in 0 .. n }

FileLists == SeqsUpTo(Files, MaxFiles)

VARIABLES
  images,        \* the `images` state: Indices -> [id, file, preview]
  blobUrls,      \* the browser's blob URL store: the object URLs that are live
  staleRevokes,  \* URL.revokeObjectURL calls whose URL was not live
  toast,         \* the toast shown: the latest toast() call
  exportPc,      \* where the downloadGrid call in flight stands
  canvas,        \* the canvas the downloadGrid call in flight draws on
  tasks,         \* imagePromises of that call: Indices -> [state, src]
  downloads,     \* the PNG files handed to the browser's download
  call           \* CallSpec: the arguments [files, slotId] of the call it applies

storeVars == <<images, blobUrls, staleRevokes>>
exportVars == <<exportPc, canvas, tasks, downloads>>
vars ==
  <<images, blobUrls, staleRevokes, toast, exportPc, canvas, tasks, downloads, call>>

\* ------------------------------------------------------------ the slots

\* { id: i, file: null, preview: null }
EmptySlot(i) == [id |-> i, file |-> NoFile, preview |-> NoUrl]

\* Array.from({ length: 9 }, (_, i) => ({ id: i, file: null, preview: null }))
EmptyGrid == [i \in Indices |-> EmptySlot(i)]

Min(a, b) == IF a < b THEN a ELSE b

\* findIndex with a bug: index 0 instead of -1 when no slot is empty.
findIndex_Zero(imgs) ==
  IF \E i \in Indices : imgs[i].file = NoFile
  THEN CHOOSE i \in Indices :
         /\ imgs[i].file = NoFile
         /\ \A j \in Indices : j < i => imgs[j].file # NoFile
  ELSE 0

\* images.findIndex(img => img.file === null)
findIndex(imgs) ==
  IF \E i \in Indices : imgs[i].file = NoFile
  THEN CHOOSE i \in Indices :
         /\ imgs[i].file = NoFile
         /\ \A j \in Indices : j < i => imgs[j].file # NoFile
  ELSE -1

\* fileArray.filter(file => file.type.startsWith('image/'))
imageFilesOf(files) == SelectSeq(files, IsImage)

\* slotId !== undefined ? slotId : images.findIndex(...)
startIndexOf(imgs, slotId) ==
  IF slotId # Undefined THEN slotId[1] ELSE findIndex(imgs)

\* The previews the slots of imgs hold.
Previews(imgs) == {imgs[i].preview : i \in Indices} \ {NoUrl}

\* ------------------------------------------------------ the object URLs

\* URL.createObjectURL(file) returns a URL that no earlier call returned.  The
\* model names the URL made for slot i <<i, n>>, n the least serial that is
\* neither live nor still referenced: a URL that was revoked and that nothing
\* references any more cannot be told from one never made, and reusing its
\* name keeps the set of names finite.
RECURSIVE leastFree(_, _, _)
leastFree(i, n, inUse) ==
  IF <<i, n>> \notin inUse THEN n ELSE leastFree(i, n + 1, inUse)

createObjectURL(i, inUse) == <<i, leastFree(i, 0, inUse)>>

\* URL.revokeObjectURL(url) on the store [urls, stale]: the URL leaves the blob
\* URL store; a call on a URL that is not live is counted.
revokeObjectURL(store, url) ==
  [urls |-> store.urls \ {url},
   stale |-> IF url \in store.urls THEN store.stale ELSE store.stale + 1]

\* The live URLs no slot references.
Leaked == blobUrls \ Previews(images)

\* ------------------------------------------------------- handleFileSelect

\* placeFile with a bug: the target index wraps around instead of stopping at 9.
placeFile_Wrap(acc, file, index, startIndex, held) ==
  LET targetIndex == (startIndex + index) % GridSlots
      preview == createObjectURL(targetIndex,
                                 acc.urls \cup held \cup {acc.imgs[targetIndex].preview})
  IN  [imgs |-> [acc.imgs EXCEPT
                   ![targetIndex] = [id |-> targetIndex,
                                     file |-> file,
                                     preview |-> preview]],
       urls |-> acc.urls \cup {preview}]

\* placeFile with a bug: the slot gets the file's index in the batch as its id.
placeFile_BadId(acc, file, index, startIndex, held) ==
  LET targetIndex == startIndex + index
      preview == createObjectURL(targetIndex,
                                 acc.urls \cup held \cup {acc.imgs[targetIndex].preview})
  IN  IF targetIndex < GridSlots
      THEN [imgs |-> [acc.imgs EXCEPT
                        ![targetIndex] = [id |-> index,
                                          file |-> file,
                                          preview |-> preview]],
            urls |-> acc.urls \cup {preview}]
      ELSE acc

\* One iteration of imageFiles.forEach((file, index) => { ... }) on
\* acc = [imgs |-> newImages, urls |-> the blob URL store].
placeFile(acc, file, index, startIndex, held) ==
  LET targetIndex == startIndex + index
      preview == createObjectURL(targetIndex,
                                 acc.urls \cup held \cup {acc.imgs[targetIndex].preview})
  IN  IF targetIndex < GridSlots
      THEN [imgs |-> [acc.imgs EXCEPT
                        ![targetIndex] = [id |-> targetIndex,
                                          file |-> file,
                                          preview |-> preview]],
            urls |-> acc.urls \cup {preview}]
      ELSE acc

\* imageFiles.forEach(...), from index on (index is 0-based, as in the code).
RECURSIVE forEachFile(_, _, _, _, _)
forEachFile(acc, imageFiles, index, startIndex, held) ==
  IF index >= Len(imageFiles)
  THEN acc
  ELSE forEachFile(placeFile(acc, imageFiles[index + 1], index, startIndex, held),
                   imageFiles, index + 1, startIndex, held)

\* successCount with a bug: the files accepted, not the files placed.
successCount_Len(imageFiles, startIndex) == Len(imageFiles)

\* Math.min(imageFiles.length, 9 - startIndex) of the success toast.
successCount(imageFiles, startIndex) ==
  Min(Len(imageFiles), GridSlots - startIndex)

Toast(title, variant, count) ==
  [title |-> title, variant |-> variant, count |-> count]

NoToast == Toast("none", "default", 0)

\* handleFileSelect(files, slotId).  `held` are the URLs something outside the
\* slots still refers to (the image elements of an export in flight).
handleFileSelect(files, slotId, held) ==
  LET imageFiles == imageFilesOf(files)
      startIndex == startIndexOf(images, slotId)
      placed == forEachFile([imgs |-> images, urls |-> blobUrls],
                            imageFiles, 0, startIndex, held)
  IN  /\ Len(files) # 0
      /\ IF Len(imageFiles) = 0
         THEN /\ toast' = Toast("fileFormatError", "destructive", 0)
              /\ UNCHANGED <<images, blobUrls>>
         ELSE IF startIndex = -1
         THEN /\ toast' = Toast("gridFull", "destructive", 0)
              /\ UNCHANGED <<images, blobUrls>>
         ELSE /\ images' = placed.imgs
              /\ blobUrls' = placed.urls
              /\ toast' = Toast("uploadSuccess", "default",
                                successCount(imageFiles, startIndex))
      /\ UNCHANGED staleRevokes

\* ------------------------------------------------------------ removeImage

\* removeImage with a bug: the slot is cleared and its URL is not revoked.
removeImage_NoRevoke(slotId) ==
  /\ images' = [images EXCEPT ![slotId] = EmptySlot(slotId)]
  /\ UNCHANGED <<blobUrls, staleRevokes, toast>>

removeImage(slotId) ==
  LET store == IF images[slotId].preview # NoUrl
               THEN revokeObjectURL([urls |-> blobUrls, stale |-> staleRevokes],
                                    images[slotId].preview)
               ELSE [urls |-> blobUrls, stale |-> staleRevokes]
  IN  /\ blobUrls' = store.urls
      /\ staleRevokes' = store.stale
      /\ images' = [images EXCEPT ![slotId] = EmptySlot(slotId)]
      /\ UNCHANGED toast

\* -------------------------------------------------------------- resetGrid

\* images.forEach(img => { if (img.preview) URL.revokeObjectURL(img.preview) })
RECURSIVE revokeEach(_, _, _)
revokeEach(store, imgs, i) ==
  IF i >= GridSlots
  THEN store
  ELSE revokeEach(IF imgs[i].preview # NoUrl
                  THEN revokeObjectURL(store, imgs[i].preview)
                  ELSE store,
                  imgs, i + 1)

resetGrid ==
  LET store == revokeEach([urls |-> blobUrls, stale |-> staleRevokes], images, 0)
  IN  /\ blobUrls' = store.urls
      /\ staleRevokes' = store.stale
      /\ images' = EmptyGrid
      /\ toast' = Toast("gridReset", "default", 0)

\* ----------------------------------------------------------- downloadGrid

\* const gridSize = 3; const cellSize = 300; const gap = 10;
gridSize == 3
cellSize == 300
gap == 10

\* gridSize * cellSize + (gridSize - 1) * gap
canvasSide == gridSize * cellSize + (gridSize - 1) * gap

NoCanvas == [ctx |-> "none", width |-> 0, height |-> 0, cells |-> {}]

\* One entry of imagePromises: no promise yet, a promise that is pending on
\* the load of `src`, a promise that resolved, or a pending promise whose
\* image failed to load (there is no onerror: it never resolves).
Task(state, src) == [state |-> state, src |-> src]
NoTasks == [i \in Indices |-> Task("none", NoUrl)]

\* The URLs the image elements of the export in flight are loading.
Held == {tasks[i].src : i \in {j \in Indices : tasks[j].state = "pending"}}

\* Math.floor(index / gridSize), index % gridSize, col * (cellSize + gap), ...
cellRect(index) ==
  LET row == index \div gridSize
      col == index % gridSize
  IN  [index |-> index,
       x |-> col * (cellSize + gap),
       y |-> row * (cellSize + gap),
       w |-> cellSize,
       h |-> cellSize]

\* filledImages with a bug: the filter misses slot 0.
filledImages_SkipFirst(imgs) == {i \in Indices : i > 0 /\ imgs[i].preview # NoUrl}

\* images.filter(img => img.preview)
filledImages(imgs) == {i \in Indices : imgs[i].preview # NoUrl}

\* downloadGrid up to `await Promise.all(imagePromises)`.  ctx is what
\* canvas.getContext('2d') returns: "2d", or "null" when the browser gives
\* no context.
downloadGrid(ctx) ==
  IF filledImages(images) = {}
  THEN /\ toast' = Toast("noImages", "destructive", 0)
       /\ UNCHANGED <<storeVars, exportVars>>
  ELSE IF ctx = "null"
  THEN UNCHANGED <<storeVars, toast, exportVars>>
  ELSE /\ canvas' = [ctx |-> "2d", width |-> canvasSide, height |-> canvasSide,
                     cells |-> {}]
       /\ tasks' = [i \in Indices |->
                      IF images[i].preview = NoUrl
                      THEN Task("resolved", NoUrl)
                      ELSE Task("pending", images[i].preview)]
       /\ exportPc' = "awaiting"
       /\ UNCHANGED <<storeVars, toast, downloads>>

\* ---- numbers of the cover fit: a / b, kept as <<a, b>> in lowest terms, b > 0.
\* (JavaScript numbers are doubles; the model keeps the exact quotient.)
Abs(n) == IF n < 0 THEN -n ELSE n

RECURSIVE GCD(_, _)
GCD(a, b) == IF b = 0 THEN a ELSE GCD(b, a % b)

Rat(n, d) ==
  LET g == GCD(Abs(n), Abs(d))
      sign == IF d < 0 THEN -1 ELSE 1
  IN  <<sign * (n \div g), sign * (d \div g)>>

RatOf(n) == Rat(n, 1)
RatMul(a, b) == Rat(a[1] * b[1], a[2] * b[2])
RatDiv(a, b) == Rat(a[1] * b[2], a[2] * b[1])
RatAdd(a, b) == Rat(a[1] * b[2] + b[1] * a[2], a[2] * b[2])
RatSub(a, b) == Rat(a[1] * b[2] - b[1] * a[2], a[2] * b[2])
RatNeg(a) == Rat(-a[1], a[2])
RatGt(a, b) == a[1] * b[2] > b[1] * a[2]

\* coverFit with a bug: the image is scaled to fit inside the cell.
coverFit_Contain(width, height) ==
  LET aspectRatio == RatDiv(RatOf(width), RatOf(height))
  IN  IF RatGt(aspectRatio, RatOf(1))
      THEN LET drawWidth == RatOf(cellSize)
                drawHeight == RatDiv(RatOf(cellSize), aspectRatio)
           IN  [drawWidth |-> drawWidth,
                drawHeight |-> drawHeight,
                offsetX |-> RatOf(0),
                offsetY |-> RatNeg(RatDiv(RatSub(drawHeight, RatOf(cellSize)), RatOf(2)))]
      ELSE LET drawHeight == RatOf(cellSize)
                drawWidth == RatMul(RatOf(cellSize), aspectRatio)
           IN  [drawWidth |-> drawWidth,
                drawHeight |-> drawHeight,
                offsetX |-> RatNeg(RatDiv(RatSub(drawWidth, RatOf(cellSize)), RatOf(2))),
                offsetY |-> RatOf(0)]

\* The object-fit: cover computation of image.onload, for an image of
\* image.width = width and image.height = height.
coverFit(width, height) ==
  LET aspectRatio == RatDiv(RatOf(width), RatOf(height))
  IN  IF RatGt(aspectRatio, RatOf(1))
      THEN LET drawHeight == RatOf(cellSize)
                drawWidth == RatMul(RatOf(cellSize), aspectRatio)
           IN  [drawWidth |-> drawWidth,
                drawHeight |-> drawHeight,
                offsetX |-> RatNeg(RatDiv(RatSub(drawWidth, RatOf(cellSize)), RatOf(2))),
                offsetY |-> RatOf(0)]
      ELSE LET drawWidth == RatOf(cellSize)
                drawHeight == RatDiv(RatOf(cellSize), aspectRatio)
           IN  [drawWidth |-> drawWidth,
                drawHeight |-> drawHeight,
                offsetX |-> RatOf(0),
                offsetY |-> RatNeg(RatDiv(RatSub(drawHeight, RatOf(cellSize)), RatOf(2)))]

\* drawCell with a bug: every image is clipped to the cell of position 0.
drawCell_FirstCell(index, width, height) ==
  LET cell == cellRect(0)
      fit == coverFit(width, height)
  IN  [index |-> index,
       image |-> <<width, height>>,
       clip |-> [x |-> cell.x, y |-> cell.y, w |-> cell.w, h |-> cell.h],
       fit |-> fit,
       dx |-> RatAdd(RatOf(cell.x), fit.offsetX),
       dy |-> RatAdd(RatOf(cell.y), fit.offsetY)]

\* What image.onload of position index puts on the canvas: the clip
\* ctx.rect(x, y, cellSize, cellSize) and the draw
\* ctx.drawImage(image, x + offsetX, y + offsetY, drawWidth, drawHeight).
drawCell(index, width, height) ==
  LET cell == cellRect(index)
      fit == coverFit(width, height)
  IN  [index |-> index,
       image |-> <<width, height>>,
       clip |-> [x |-> cell.x, y |-> cell.y, w |-> cell.w, h |-> cell.h],
       fit |-> fit,
       dx |-> RatAdd(RatOf(cell.x), fit.offsetX),
       dy |-> RatAdd(RatOf(cell.y), fit.offsetY)]

\* image.onload of position index, the image loaded being width x height:
\* clip to the cell, draw, resolve().
imageOnload(index, width, height) ==
  /\ tasks[index].state = "pending"
  /\ canvas' = [canvas EXCEPT !.cells = @ \cup {drawCell(index, width, height)}]
  /\ tasks' = [tasks EXCEPT ![index] = Task("resolved", NoUrl)]
  /\ UNCHANGED <<storeVars, toast, exportPc, downloads>>

\* The image of position index fails to load: no handler runs, and the
\* promise stays pending for good.
imageError(index) ==
  /\ tasks[index].state = "pending"
  /\ tasks' = [tasks EXCEPT ![index] = Task("failed", NoUrl)]
  /\ UNCHANGED <<storeVars, toast, exportPc, canvas, downloads>>

\* awaitAll with a bug: Promise.race, the first promise that resolves resumes.
awaitAll_Race ==
  /\ exportPc = "awaiting"
  /\ \E i \in Indices : tasks[i].state = "resolved"
  /\ exportPc' = "encoding"
  /\ UNCHANGED <<storeVars, toast, canvas, tasks, downloads>>

\* awaitAll with a bug: Promise.allSettled over promises that a failed load
\* rejects, no promise pending resumes.
awaitAll_Settled ==
  /\ exportPc = "awaiting"
  /\ \A i \in Indices : tasks[i].state # "pending"
  /\ exportPc' = "encoding"
  /\ UNCHANGED <<storeVars, toast, canvas, tasks, downloads>>

\* await Promise.all(imagePromises) resumes; canvas.toBlob(callback, 'image/png').
awaitAll ==
  /\ exportPc = "awaiting"
  /\ \A i \in Indices : tasks[i].state = "resolved"
  /\ exportPc' = "encoding"
  /\ UNCHANGED <<storeVars, toast, canvas, tasks, downloads>>

\* The toBlob callback.  blob is "png", or "null" when the encoding failed.
toBlobCallback(blob) ==
  /\ exportPc = "encoding"
  /\ exportPc' = "idle"
  /\ tasks' = NoTasks
  /\ IF blob # "null"
     THEN LET url == createObjectURL(GridSlots, blobUrls \cup Held)
              made == [urls |-> blobUrls \cup {url}, stale |-> staleRevokes]
              store == revokeObjectURL(made, url)
          IN  /\ downloads' = downloads + 1
              /\ blobUrls' = store.urls
              /\ staleRevokes' = store.stale
              /\ toast' = Toast("downloadSuccess", "default", 0)
     ELSE UNCHANGED <<blobUrls, staleRevokes, toast, downloads>>
  /\ canvas' = NoCanvas
  /\ UNCHANGED images

\* ---------------------------------------------------- the specifications

NoCall == [files |-> <<>>, slotId |-> Undefined]

Init ==
  /\ images = EmptyGrid
  /\ blobUrls = {}
  /\ staleRevokes = 0
  /\ toast = NoToast
  /\ exportPc = "idle"
  /\ canvas = NoCanvas
  /\ tasks = NoTasks
  /\ downloads = 0
  /\ call = NoCall

\* A file dialog's change event or a drop: handleFileSelect(files, slotId).
SelectFiles(fileLists, slotIds) ==
  \E files \in fileLists, slotId \in slotIds :
    /\ handleFileSelect(files, slotId, Held)
    /\ UNCHANGED <<exportVars, call>>

InsertFiles == SelectFiles(FileLists, SlotIds) /\ Cardinality(Leaked') <= MaxLeaked

RemoveSlot ==
  \E slotId \in Indices : removeImage(slotId) /\ UNCHANGED <<exportVars, call>>

ResetAll == resetGrid /\ UNCHANGED <<exportVars, call>>

\* The slot store alone: the three handlers that change `images`.
Next == InsertFiles \/ RemoveSlot \/ ResetAll

Spec == Init /\ [][Next]_vars

\* The slot store with few images in it, and two image files to tell apart.
DropFiles == {"a.png", "b.jpg", "c.txt"}
DropFileLists == SeqsUpTo(DropFiles, MaxFiles)

DropInsertFiles ==
  SelectFiles(DropFileLists, SlotIds) /\ Cardinality(blobUrls') <= MaxLive

DropNext == DropInsertFiles \/ RemoveSlot \/ ResetAll

DropSpec == Init /\ [][DropNext]_vars

\* One call of handleFileSelect, on every store of a family of stores the
\* program reaches, and that call again on the store it leaves.  The family:
\* any set of slots filled, each by a drop of a.png on its cell, the drop
\* that came last having shown its success toast; no such drop replaced an
\* image, so that each URL is the first of its slot and is live.
FamilyStore(filled) ==
  [i \in Indices |->
     IF i \in filled
     THEN [id |-> i, file |-> "a.png", preview |-> <<i, 0>>]
     ELSE EmptySlot(i)]

CallInit ==
  /\ \E filled \in SUBSET Indices :
       /\ images = FamilyStore(filled)
       /\ blobUrls = {<<i, 0>> : i \in filled}
       /\ toast = IF filled = {} THEN NoToast ELSE Toast("uploadSuccess", "default", 1)
  /\ staleRevokes = 0
  /\ exportPc = "idle"
  /\ canvas = NoCanvas
  /\ tasks = NoTasks
  /\ downloads = 0
  /\ call \in [files : DropFileLists \ {<<>>}, slotId : SlotIds]

CallNext ==
  /\ handleFileSelect(call.files, call.slotId, Held)
  /\ Cardinality(Leaked') <= MaxFiles
  /\ UNCHANGED <<exportVars, call>>

CallSpec == CallInit /\ [][CallNext]_vars

\* The slot store and the export.  One downloadGrid call is followed at a time.
\* Files come from the dialog or the upload zone (no slotId) or are dropped on
\* the centre cell.
ExportSlotIds == {Undefined, <<4>>}

ExportInsertFiles ==
  SelectFiles(FileLists, ExportSlotIds) /\ Cardinality(blobUrls') <= MaxExportLive

DownloadGrid ==
  /\ exportPc = "idle"
  /\ downloads < MaxDownloads
  /\ \E ctx \in {"2d", "null"} : downloadGrid(ctx)
  /\ UNCHANGED call

\* The sizes of the images a run that follows the export loads.
ImageSizes == {<<2, 1>>, <<3, 4>>}

LoadImage(sizes) ==
  \E index \in Indices, size \in sizes :
    imageOnload(index, size[1], size[2]) /\ UNCHANGED call

ImageLoad == LoadImage(ImageSizes)

ImageError == \E index \in Indices : imageError(index) /\ UNCHANGED call

AwaitAll == awaitAll /\ UNCHANGED call

ToBlobDone == \E blob \in {"png", "null"} : toBlobCallback(blob) /\ UNCHANGED call

ExportNext ==
  \/ ExportInsertFiles
  \/ RemoveSlot
  \/ ResetAll
  \/ DownloadGrid
  \/ ImageLoad
  \/ ImageError
  \/ AwaitAll
  \/ ToBlobDone

ExportSpec == Init /\ [][ExportNext]_vars

\* The export alone, on every store of a family the program reaches: at most
\* MaxFilled slots filled, each by a drop of a.png on its cell (insert three
\* files and remove slot 1 leaves the same slots filled as drops on cells 0
\* and 2).  No handler of the slot store runs while the export is followed.
RenderInit ==
  /\ \E filled \in {f \in SUBSET Indices : Cardinality(f) <= MaxFilled} :
       /\ images = FamilyStore(filled)
       /\ blobUrls = {<<i, 0>> : i \in filled}
       /\ toast = IF filled = {} THEN NoToast ELSE Toast("uploadSuccess", "default", 1)
  /\ staleRevokes = 0
  /\ exportPc = "idle"
  /\ canvas = NoCanvas
  /\ tasks = NoTasks
  /\ downloads = 0
  /\ call = NoCall

RenderNext ==
  \/ DownloadGrid
  \/ ImageLoad
  \/ ImageError
  \/ AwaitAll
  \/ ToBlobDone

RenderSpec == RenderInit /\ [][RenderNext]_vars

\* The continuation of `await Promise.all` is a microtask and the toBlob
\* callback a task of the event loop: each runs once it is ready.  Nothing
\* makes an image load complete.
FairRenderSpec ==
  /\ RenderSpec
  /\ WF_vars(AwaitAll)
  /\ WF_vars(ToBlobDone)

\* The export of a store whose centre slot alone is filled, the image loaded
\* being of any width and height up to MaxSide.
CoverInit ==
  /\ images = FamilyStore({4})
  /\ blobUrls = {<<4, 0>>}
  /\ toast = Toast("uploadSuccess", "default", 1)
  /\ staleRevokes = 0
  /\ exportPc = "idle"
  /\ canvas = NoCanvas
  /\ tasks = NoTasks
  /\ downloads = 0
  /\ call = NoCall

CoverImageLoad == LoadImage((1 .. MaxSide) \X (1 .. MaxSide))

CoverNext ==
  \/ DownloadGrid
  \/ CoverImageLoad
  \/ AwaitAll
  \/ ToBlobDone

CoverSpec == CoverInit /\ [][CoverNext]_vars

\* ------------------------------------------------------------ properties

IsFilled(slot) == slot.file # NoFile
FilledSlots(imgs) == {i \in Indices : IsFilled(imgs[i])}
EmptySlots(imgs) == Indices \ FilledSlots(imgs)

\* The slots a step changes.
Changed == {i \in Indices : images'[i] # images[i]}

\* The image files of a FileList, counted.
AcceptedCount(files) == Cardinality({n \in DOMAIN files : IsImage(files[n])})

\* The k lowest empty slots of imgs (all of them when fewer than k are empty).
FirstEmptySlots(imgs, k) ==
  {i \in EmptySlots(imgs) :
     Cardinality({j \in EmptySlots(imgs) : j < i}) < k}

\* A call of handleFileSelect with no slotId / with slotId t.
AutoInsert(files) == handleFileSelect(files, Undefined, Held)
TargetInsert(files, t) == handleFileSelect(files, <<t>>, Held)

\* C1: an insert with no target index changes exactly the min(k, number of
\* empty slots) lowest empty slots, k the number of image files, and leaves
\* every filled slot as it was.
C1_AutoInsertFillsEmptySlots ==
  [][\A files \in FileLists :
       AutoInsert(files) =>
         Changed = FirstEmptySlots(images, AcceptedCount(files))]_vars

\* C2: when an insert writes a slot that was filled, the URL the slot held is
\* no longer live after the insert.
C2_ReplaceReleasesOldUrl ==
  [][\A files \in FileLists, slotId \in SlotIds :
       handleFileSelect(files, slotId, Held) =>
         \A i \in Changed :
           images[i].preview # NoUrl => images[i].preview \notin blobUrls']_vars

\* C3: the live URLs are exactly the previews of the filled slots, one for
\* each filled slot.
C3_LiveUrlsAreSlotPreviews ==
  /\ blobUrls = Previews(images)
  /\ Cardinality(Previews(images)) = Cardinality(FilledSlots(images))

\* The arguments of the call CallSpec applies.
CallCount == AcceptedCount(call.files)
CallStart ==
  IF call.slotId # Undefined
  THEN call.slotId[1]
  ELSE IF EmptySlots(images) = {}
       THEN -1
       ELSE CHOOSE i \in EmptySlots(images) : \A j \in EmptySlots(images) : i <= j

\* C4: an insert of k image files at target index t writes exactly the slots
\* t .. min(t + k - 1, 8), the i-th image file of the list into slot t + i
\* (files that are no images take no position), with id t + i and a live
\* preview, and changes no other slot; files past slot 8 are dropped and the
\* insert still succeeds.
C4_TargetInsertWritesRun ==
  [][(call.slotId # Undefined /\ CallCount > 0) =>
       LET t == call.slotId[1]
           accepted == SelectSeq(call.files, IsImage)
           run == {i \in Indices :
                     t <= i /\ i <= Min(t + CallCount - 1, GridSlots - 1)}
       IN  /\ Changed = run
           /\ \A i \in run :
                /\ images'[i].id = i
                /\ images'[i].file = accepted[i - t + 1]
                /\ images'[i].preview # NoUrl
                /\ images'[i].preview \in blobUrls'
           /\ toast'.title = "uploadSuccess"]_vars

\* C4 witness: c.txt, b.jpg and a.png or b.jpg and a.png, dropped on cell 7 in
\* that order, left b.jpg in slot 7 and a.png in slot 8.
C4_Witness ==
  /\ call.slotId = <<7>>
  /\ SelectSeq(call.files, IsImage) = <<"b.jpg", "a.png">>
  /\ toast = Toast("uploadSuccess", "default", 2)
  /\ images[7].file = "b.jpg"
  /\ images[8].file = "a.png"

\* C5: resetGrid leaves nine empty slots and no live URL, and revokes no URL
\* that was not live.
C5_ResetReleasesEveryUrl ==
  [][resetGrid =>
       /\ images' = EmptyGrid
       /\ blobUrls' = {}
       /\ staleRevokes' = staleRevokes]_vars

\* C6: removeImage(i) on a filled slot empties slot i, takes exactly that
\* slot's URL, which was live, out of the live URLs and changes no other slot;
\* on an empty slot it changes nothing (so a second removal of the same slot
\* changes nothing); and no URL is ever revoked while it is not live.
C6_RemoveReleasesOnce ==
  /\ [](staleRevokes = 0)
  /\ [][\A i \in Indices :
          removeImage(i) =>
            IF IsFilled(images[i])
            THEN /\ images' = [images EXCEPT ![i] = EmptySlot(i)]
                 /\ images[i].preview \in blobUrls
                 /\ blobUrls' = blobUrls \ {images[i].preview}
                 /\ staleRevokes' = staleRevokes
                 /\ ~IsFilled(images'[i]) /\ images'[i].preview = NoUrl
            ELSE UNCHANGED <<images, blobUrls, staleRevokes, toast>>]_vars

\* C6 witness: two files were inserted and slot 0 removed since: slot 1 alone
\* is filled and its URL is the only live one.
C6_Witness ==
  /\ toast = Toast("uploadSuccess", "default", 2)
  /\ FilledSlots(images) = {1}
  /\ blobUrls = {images[1].preview}

\* C7: an insert of a FileList that is not empty fails in two cases only: with
\* no image file in the list (fileFormatError), and with no target index and
\* no empty slot (gridFull).  A failed insert changes no slot and no live URL
\* and shows a destructive toast; any other insert, one with a target index
\* on a full grid included, shows the success toast.
C7_InsertFailures ==
  [][LET noImage == CallCount = 0
         noRoom == call.slotId = Undefined /\ EmptySlots(images) = {}
     IN  /\ noImage =>
              /\ toast' = Toast("fileFormatError", "destructive", 0)
              /\ UNCHANGED <<images, blobUrls, staleRevokes>>
         /\ (~noImage /\ noRoom) =>
              /\ toast' = Toast("gridFull", "destructive", 0)
              /\ UNCHANGED <<images, blobUrls, staleRevokes>>
         /\ (~noImage /\ ~noRoom) =>
              /\ toast'.title = "uploadSuccess"
              /\ toast'.variant = "default"
              /\ Changed # {}]_vars

\* C7 witness: the grid is full and the insert, with no target index, failed.
C7_Witness ==
  /\ toast.title = "gridFull"
  /\ call.slotId = Undefined
  /\ EmptySlots(images) = {}

\* C8: there are always nine slots, slot i has id i, and a slot is empty (no
\* file, no preview) or filled (a file and a preview); a slot that changes
\* becomes filled in a successful insert, or goes from filled to empty in a
\* removal or a reset.
C8_SlotsWellFormed ==
  \A i \in Indices :
    /\ images[i].id = i
    /\ (images[i].file = NoFile) <=> (images[i].preview = NoUrl)

C8_NineSlotsFixedIds ==
  /\ [](DOMAIN images = Indices /\ Cardinality(DOMAIN images) = 9)
  /\ []C8_SlotsWellFormed
  /\ [][\A i \in Changed :
          \/ /\ IsFilled(images'[i])
             /\ toast'.title = "uploadSuccess"
          \/ /\ IsFilled(images[i])
             /\ ~IsFilled(images'[i])
             /\ toast' \in {toast, Toast("gridReset", "default", 0)}]_vars

\* C8 witness: slot 4 is filled and a second URL is live: the slot was filled
\* and then written again.
C8_Witness ==
  /\ FilledSlots(images) = {4}
  /\ Cardinality(blobUrls) = 2
  /\ toast.title = "uploadSuccess"

\* C9: the count of the success toast is min(k, 9 - start), k the number of
\* image files and start the target index or else the first empty slot, and
\* it is the number of slots the insert wrote.
C9_SuccessCount ==
  [][(CallCount > 0 /\ CallStart # -1) =>
       /\ toast'.title = "uploadSuccess"
       /\ toast'.count = Min(CallCount, 9 - CallStart)
       /\ toast'.count = Cardinality(Changed)]_vars

\* C9 witness: b.jpg and a.png were dropped on cell 8; b.jpg was placed, and
\* the toast counts one.
C9_Witness ==
  /\ call.slotId = <<8>>
  /\ SelectSeq(call.files, IsImage) = <<"b.jpg", "a.png">>
  /\ toast = Toast("uploadSuccess", "default", 1)
  /\ images[8].file = "b.jpg"

\* C10: downloadGrid with no filled slot shows the noImages toast and does
\* nothing else: no canvas, no image load, no download; with a filled slot it
\* shows no toast, and with a 2d context it sets up the canvas and the nine
\* promises.
C10_NothingToRender ==
  [][\A ctx \in {"2d", "null"} :
       (exportPc = "idle" /\ downloadGrid(ctx)) =>
         IF FilledSlots(images) = {}
         THEN /\ toast' = Toast("noImages", "destructive", 0)
              /\ UNCHANGED <<exportPc, canvas, tasks, downloads>>
              /\ UNCHANGED <<images, blobUrls, staleRevokes>>
         ELSE /\ toast' = toast
              /\ toast'.title # "noImages"
              /\ ctx = "2d" =>
                   /\ canvas'.ctx = "2d"
                   /\ exportPc' = "awaiting"
                   /\ \A i \in Indices : tasks'[i].state # "none"]_vars

\* C10 witness: the noImages toast is up, and no canvas, no promise and no
\* download exist.
C10_Witness ==
  /\ toast.title = "noImages"
  /\ canvas = NoCanvas
  /\ tasks = NoTasks
  /\ downloads = 0
  /\ exportPc = "idle"

\* The positions the canvas has a draw for.
DrawnCells == {c.index : c \in canvas.cells}

\* C11: the encoding (canvas.toBlob) and the download never happen before all
\* nine promises have resolved: the promise of an empty slot resolves when
\* downloadGrid makes it, the promise of a filled slot when its image has
\* loaded and is drawn, in whatever order the loads complete; the wait ends
\* only when none of the nine is left.
C11_EncodeAfterAllTasks ==
  /\ [](exportPc = "encoding" =>
          \A i \in Indices :
            /\ tasks[i].state = "resolved"
            /\ IsFilled(images[i]) => i \in DrawnCells)
  /\ [][(exportPc = "idle" /\ exportPc' = "awaiting") =>
          \A i \in Indices :
            tasks'[i].state = IF IsFilled(images[i]) THEN "pending" ELSE "resolved"]_vars
  /\ [][(exportPc # "encoding" /\ exportPc' = "encoding") =>
          /\ exportPc = "awaiting"
          /\ \A i \in Indices : tasks[i].state = "resolved"
          /\ FilledSlots(images) \subseteq DrawnCells]_vars
  /\ [][downloads' # downloads => exportPc = "encoding"]_vars

\* C11 witness: two slots are filled, both images are drawn, and the export
\* is encoding.
C11_Witness ==
  /\ exportPc = "encoding"
  /\ Cardinality(FilledSlots(images)) = 2
  /\ DrawnCells = FilledSlots(images)

\* C12: a render whose nine promises have all resolved goes on to the
\* encoding; while a promise is not resolved the render stays at the await
\* and shows no toast and downloads nothing; and once the image of a filled
\* slot has failed to load, the render stays at the await for ever (no
\* onerror handler, no timeout, no cancellation).
C12_StalledRenderNeverEncodes ==
  /\ (exportPc = "awaiting" /\ \A i \in Indices : tasks[i].state = "resolved")
       ~> (exportPc = "encoding")
  /\ [][(exportPc = "awaiting" /\ \E i \in Indices : tasks[i].state # "resolved") =>
          /\ exportPc' = "awaiting"
          /\ toast' = toast
          /\ downloads' = downloads]_vars
  /\ \A i \in Indices :
       [](tasks[i].state = "failed" =>
            [](tasks[i].state = "failed" /\ exportPc = "awaiting"))

\* C12 witness: of two filled slots one image has loaded and is drawn, the
\* other has failed, and the render is at the await.
C12_Witness ==
  /\ exportPc = "awaiting"
  /\ \E i, j \in Indices :
       /\ tasks[i].state = "failed"
       /\ IsFilled(images[j])
       /\ tasks[j].state = "resolved"
       /\ j \in DrawnCells

\* Two rectangles [x, y, w, h] with no point in common.
Disjoint(a, b) ==
  \/ a.x + a.w <= b.x
  \/ b.x + b.w <= a.x
  \/ a.y + a.h <= b.y
  \/ b.y + b.h <= a.y

\* C13: every draw on the canvas is of a filled slot, and when the encoding
\* starts every filled slot has its draw and no empty slot has one; the draw
\* of position i is clipped to the 300 x 300 rectangle whose top-left corner
\* is ((i mod 3) * 310, (i div 3) * 310); the nine cells are pairwise disjoint
\* and lie inside the 920 x 920 canvas.
C13_CellGeometry ==
  /\ canvas.ctx = "2d" => (canvas.width = 920 /\ canvas.height = 920)
  /\ \A c \in canvas.cells :
       /\ IsFilled(images[c.index])
       /\ c.clip = [x |-> (c.index % 3) * 310, y |-> (c.index \div 3) * 310,
                    w |-> 300, h |-> 300]
       /\ c.clip.x >= 0 /\ c.clip.x + c.clip.w <= canvas.width
       /\ c.clip.y >= 0 /\ c.clip.y + c.clip.h <= canvas.height
       /\ \A d \in canvas.cells : d.index = c.index => d = c
  /\ \A c, d \in canvas.cells : c.index # d.index => Disjoint(c.clip, d.clip)
  /\ \A i, j \in Indices : i # j => Disjoint(cellRect(i), cellRect(j))
  /\ exportPc = "encoding" => DrawnCells = FilledSlots(images)

\* C13 witness: slots 0 and 2 are filled, the export is encoding, and the
\* canvas has the draws of cells (0,0)-(300,300) and (620,0)-(920,300) only.
C13_Witness ==
  /\ exportPc = "encoding"
  /\ FilledSlots(images) = {0, 2}
  /\ {c.clip : c \in canvas.cells} =
       {[x |-> 0, y |-> 0, w |-> 300, h |-> 300],
        [x |-> 620, y |-> 0, w |-> 300, h |-> 300]}

\* The number q = <<a, b>> is n / d (d > 0); q is at least n.
IsQuotient(q, n, d) == q[2] > 0 /\ q[1] * d = n * q[2]
AtLeast(q, n) == q[1] >= n * q[2]

\* C14: for an image of width w and height h, if w > h the draw height is 300,
\* the draw width 300 * w / h, the horizontal offset -(drawWidth - 300) / 2 and
\* the vertical offset 0; otherwise the draw width is 300, the draw height
\* 300 * h / w, the vertical offset -(drawHeight - 300) / 2 and the horizontal
\* offset 0.  Both sides are at least 300, one of them is 300, and the image
\* is centred on its cell; a 2 x 1 image is drawn 600 x 300 at offset -150.
C14_CoverFit ==
  \A c \in canvas.cells :
    LET w == c.image[1]
        h == c.image[2]
        dw == c.fit.drawWidth
        dh == c.fit.drawHeight
        ox == c.fit.offsetX
        oy == c.fit.offsetY
    IN  /\ IF w > h
           THEN /\ IsQuotient(dh, 300, 1)
                /\ IsQuotient(dw, 300 * w, h)
                /\ IsQuotient(ox, -(300 * w - 300 * h), 2 * h)
                /\ IsQuotient(oy, 0, 1)
           ELSE /\ IsQuotient(dw, 300, 1)
                /\ IsQuotient(dh, 300 * h, w)
                /\ IsQuotient(oy, -(300 * h - 300 * w), 2 * w)
                /\ IsQuotient(ox, 0, 1)
        /\ AtLeast(dw, 300) /\ AtLeast(dh, 300)
        /\ IsQuotient(dw, 300, 1) \/ IsQuotient(dh, 300, 1)
        \* centred: dx + drawWidth / 2 = x + 150 and dy + drawHeight / 2 = y + 150
        /\ 2 * c.dx[1] * dw[2] + dw[1] * c.dx[2] = (2 * c.clip.x + 300) * c.dx[2] * dw[2]
        /\ 2 * c.dy[1] * dh[2] + dh[1] * c.dy[2] = (2 * c.clip.y + 300) * c.dy[2] * dh[2]
        /\ (w = 2 * h) =>
             (dw = <<600, 1>> /\ dh = <<300, 1>> /\ ox = <<-150, 1>> /\ oy = <<0, 1>>)

\* C14 witness: a 2 x 1 image has been drawn on the centre cell, 600 x 300 at
\* horizontal offset -150, that is at (160, 310), and the export is encoding.
C14_Witness ==
  /\ \E c \in canvas.cells :
       /\ c.image = <<2, 1>>
       /\ c.fit = [drawWidth |-> <<600, 1>>, drawHeight |-> <<300, 1>>,
                   offsetX |-> <<-150, 1>>, offsetY |-> <<0, 1>>]
       /\ c.dx = <<160, 1>> /\ c.dy = <<310, 1>>
  /\ exportPc = "encoding"

\* C15: the steps of the export change neither the slots nor the live URLs,
\* and no URL is revoked while the export in flight has a pending load of it:
\* the URLs of the pending loads are live in every state.
C15_RenderUndisturbed ==
  /\ [](Held \subseteq blobUrls)
  /\ [][(exportPc' # exportPc \/ tasks' # tasks \/ canvas' # canvas) =>
          UNCHANGED <<images, blobUrls, staleRevokes>>]_vars

====
